---- MODULE Spec2Model ----
(***************************************************************************)
(* Model of main.py: a command-line tool that reads the current branch,   *)
(* the commit subjects and the diff against a base branch from git, puts  *)
(* them into a fixed prompt, sends the prompt to a chat-completion        *)
(* service and prints the reply.                                          *)
(*                                                                         *)
(* Text is a sequence of one-character strings.  Fixed wording of the     *)
(* program (template paragraphs, messages) is one token per piece.        *)
(* Python values are records [type, val]; a line printed on standard      *)
(* output is a record [kind, text, num].                                  *)
(***************************************************************************)
EXTENDS Integers, Sequences, FiniteSets, TLC

VARIABLES pc, base_branch, api_key_env, branch_name, commit_logs, code_diff,
          git_info, prompt, pr_message, out, git_calls, requests, api_result,
          exit_code

vars == <<pc, base_branch, api_key_env, branch_name, commit_logs, code_diff,
          git_info, prompt, pr_message, out, git_calls, requests, api_result,
          exit_code>>

(* ------------------------------ bounds -------------------------------- *)
MaxBranchLen == 2
MaxLogLen == 3
MaxDiffLen == 2

(* ------------------------------ text ---------------------------------- *)
LF == "\n"
FF == "\f"

\* All texts over alphabet A of length at most n.
RECURSIVE TextsUpTo(_, _)
TextsUpTo(A, n) ==
  IF n = 0 THEN {<<>>}
  ELSE LET shorter == TextsUpTo(A, n - 1)
       IN  shorter \cup {Append(t, c) : t \in {u \in shorter : Len(u) = n - 1}, c \in A}

\* Characters str.strip() removes at both ends (those occurring in the model).
Whitespace == {" ", "\t", LF, "\r", FF}

\* Characters str.splitlines() treats as a line boundary (those occurring
\* in the model; "\r" never reaches the program because text=True reads
\* standard output with universal newlines).
LineBoundaries == {LF, "\r", FF}

RECURSIVE LStrip(_)
LStrip(s) == IF s # <<>> /\ Head(s) \in Whitespace THEN LStrip(Tail(s)) ELSE s

RECURSIVE RStrip(_)
RStrip(s) ==
  IF s # <<>> /\ s[Len(s)] \in Whitespace THEN RStrip(SubSeq(s, 1, Len(s) - 1)) ELSE s

\* str.strip()
Strip(s) == RStrip(LStrip(s))

\* str.splitlines(): the lines of s without their boundaries; a boundary at
\* the very end does not open a further, empty line.
RECURSIVE SplitlinesFrom(_, _, _)
SplitlinesFrom(s, cur, acc) ==
  IF s = <<>> THEN (IF cur = <<>> THEN acc ELSE Append(acc, cur))
  ELSE IF Head(s) \in LineBoundaries
       THEN SplitlinesFrom(Tail(s), <<>>, Append(acc, cur))
       ELSE SplitlinesFrom(Tail(s), Append(cur, Head(s)), acc)

Splitlines(s) == SplitlinesFrom(s, <<>>, <<>>)

\* sub occurs in s as a contiguous run
Contains(s, sub) ==
  \E i \in 0..(Len(s) - Len(sub)) : SubSeq(s, i + 1, i + Len(sub)) = sub

(* --------------------------- Python values ---------------------------- *)
Unbound == [type |-> "unbound", val |-> <<>>]
None == [type |-> "NoneType", val |-> <<>>]
Str(s) == [type |-> "str", val |-> s]
Dict(b, c, d) == [type |-> "dict", val |-> <<b, c, d>>]

\* bool(v): None and the empty string are false; a dict with keys is true.
Truthy(v) ==
  CASE v.type = "NoneType" -> FALSE
    [] v.type = "str" -> v.val # <<>>
    [] v.type = "dict" -> v.val # <<>>
    [] OTHER -> FALSE

\* str(v) as print() and f-strings apply it
Format(v) == IF v.type = "NoneType" THEN <<"N", "o", "n", "e">> ELSE v.val

Line(k, t, n) == [kind |-> k, text |-> t, num |-> n]

(* ------------------------- program constants -------------------------- *)
\* argparse: one optional positional argument, default 'main'
BaseBranches == {"main", "develop"}

\* os.getenv("OPENAI_API_KEY"): unset, set to the empty string, or set
ApiKeyValues == {None, Str(<<>>), Str(<<"k">>)}

\* what the three git commands can write on standard output
BranchStdouts == TextsUpTo({"x", LF}, MaxBranchLen)
LogStdouts == TextsUpTo({"a", LF, FF}, MaxLogLen)
DiffStdouts == TextsUpTo({"+", LF}, MaxDiffLen)

\* e.stderr of a git command that exits non-zero
GitStderrs == {<<"fatal: bad revision">>}

\* How subprocess.run(..., check=True) can end: exit status 0, a non-zero
\* exit status (CalledProcessError), no git executable (FileNotFoundError),
\* or another OSError such as PermissionError.
GitOutcomes == {"ok", "CalledProcessError", "FileNotFoundError", "PermissionError"}

\* except subprocess.CalledProcessError / except FileNotFoundError
GitHandled == {"CalledProcessError", "FileNotFoundError"}

\* exceptions client.chat.completions.create can raise
ApiErrors == {"APIConnectionError", "AuthenticationError", "RateLimitError"}

\* classes derived from Exception
ExceptionSubclasses == ApiErrors \cup {"IndexError"}

\* variant: only connection errors are caught
CaughtConnectionOnly(cls) == cls = "APIConnectionError"

\* except Exception as e
Caught(cls) == cls \in ExceptionSubclasses

\* replies of the service: a list of choices, each with a message content
\* that is a text or absent
ReplyTexts == {<<>>, <<"r">>}
Responses == {<<>>} \cup {<<None>>} \cup {<<Str(t)>> : t \in ReplyTexts}

\* outcome of a call or of a try block
NoResult == [kind |-> "none", cls |-> "", choices |-> <<>>, value |-> Unbound]
Raised(c) == [kind |-> "raise", cls |-> c, choices |-> <<>>, value |-> Unbound]
Responded(ch) == [kind |-> "response", cls |-> "", choices |-> ch, value |-> Unbound]
Returned(v) == [kind |-> "return", cls |-> "", choices |-> <<>>, value |-> v]

\* how client.chat.completions.create can end
ApiOutcomes == {Raised(c) : c \in ApiErrors} \cup {Responded(ch) : ch \in Responses}

\* one subprocess.run of git and how it ended
GitCall(cmd, outcome) == [cmd |-> cmd, result |-> outcome]

MODEL_NAME == "gpt-4.1-mini"

\* fixed wording
MissingCredentialMessage == <<"MISSING_CREDENTIAL">>
CallFailedPrefix == <<"CALL_FAILED: ">>
HDR_TITLE == "### TITLE"
HDR_DESCRIPTION == "### DESCRIPTION"
HDR_KEY_CHANGES == "### KEY CHANGES"

\* variant: the diff is cut to its first character before it is embedded
ComposePromptTruncated(gi) ==
  <<"INSTRUCTIONS", "**FORMAT:**", HDR_TITLE, "TITLE_HINT", HDR_DESCRIPTION,
    "DESCRIPTION_HINT", HDR_KEY_CHANGES, "KEY_CHANGES_HINT", "---",
    "**[INPUT]**", "**BRANCH NAME:**">>
  \o gi.val[1]
  \o <<"**COMMIT LOG:**", "FENCE">>
  \o gi.val[2]
  \o <<"FENCE", "**CODE DIFF:**", "FENCE_DIFF">>
  \o (IF gi.val[3] = <<>> THEN <<>> ELSE <<Head(gi.val[3])>>)
  \o <<"FENCE">>

\* the f-string of generate_pr_message
ComposePrompt(gi) ==
  <<"INSTRUCTIONS", "**FORMAT:**", HDR_TITLE, "TITLE_HINT", HDR_DESCRIPTION,
    "DESCRIPTION_HINT", HDR_KEY_CHANGES, "KEY_CHANGES_HINT", "---",
    "**[INPUT]**", "**BRANCH NAME:**">>
  \o gi.val[1]
  \o <<"**COMMIT LOG:**", "FENCE">>
  \o gi.val[2]
  \o <<"FENCE", "**CODE DIFF:**", "FENCE_DIFF">>
  \o gi.val[3]
  \o <<"FENCE">>

\* variant: only an unset variable counts as missing
NotApiKeyIsNone(k) == k.type = "NoneType"

\* if not api_key
NotApiKey(k) == ~Truthy(k)

\* variant: an inspection without commits counts as failed
GitInfoPresentNonEmptyLog(gi) == gi.type = "dict" /\ gi.val[2] # <<>>

\* if git_info:
GitInfoPresent(gi) == Truthy(gi)

\* the commit count printed: the number of splitlines() of commit_logs
CommitCount(gi) == Len(Splitlines(gi.val[2]))

\* str(e) of an exception raised while calling the service
ErrorText(cls) == <<cls>>

(* ------------------------------ state --------------------------------- *)
Init ==
  /\ pc = "main"
  /\ base_branch \in BaseBranches
  /\ api_key_env \in ApiKeyValues
  /\ branch_name = Unbound
  /\ commit_logs = Unbound
  /\ code_diff = Unbound
  /\ git_info = Unbound
  /\ prompt = Unbound
  /\ pr_message = Unbound
  /\ out = <<>>
  /\ git_calls = <<>>
  /\ requests = <<>>
  /\ api_result = NoResult
  /\ exit_code = 0

\* variant: the except clauses return a dict of empty fields
GitFailureReturnsDict(cmd, outcome, stderr) ==
  /\ git_calls' = Append(git_calls, GitCall(cmd, outcome))
  /\ IF outcome \in GitHandled
     THEN /\ out' = Append(out, IF outcome = "CalledProcessError"
                                THEN Line("git_error", stderr, 0)
                                ELSE Line("git_not_installed", <<>>, 0))
          /\ git_info' = Dict(<<>>, <<>>, <<>>)
          /\ pc' = "if_git_info"
          /\ exit_code' = exit_code
     ELSE /\ out' = out
          /\ git_info' = git_info
          /\ pc' = "crashed"
          /\ exit_code' = 1

\* the two except clauses of get_git_info and its `return None`
GitFailure(cmd, outcome, stderr) ==
  /\ git_calls' = Append(git_calls, GitCall(cmd, outcome))
  /\ IF outcome \in GitHandled
     THEN /\ out' = Append(out, IF outcome = "CalledProcessError"
                                THEN Line("git_error", stderr, 0)
                                ELSE Line("git_not_installed", <<>>, 0))
          /\ git_info' = None
          /\ pc' = "if_git_info"
          /\ exit_code' = exit_code
     ELSE \* not caught anywhere: traceback, exit status 1
          /\ out' = out
          /\ git_info' = git_info
          /\ pc' = "crashed"
          /\ exit_code' = 1

\* lines 110-113: the two progress lines, then get_git_info(BASE_BRANCH)
MainStart ==
  /\ pc = "main"
  /\ out' = out \o <<Line("base_branch", <<base_branch>>, 0), Line("collecting", <<>>, 0)>>
  /\ pc' = "rev_parse"
  /\ UNCHANGED <<base_branch, api_key_env, branch_name, commit_logs, code_diff,
                 git_info, prompt, pr_message, git_calls, requests, api_result, exit_code>>

\* git rev-parse --abbrev-ref HEAD
RevParse ==
  /\ pc = "rev_parse"
  /\ \E outcome \in GitOutcomes, stdout \in BranchStdouts, stderr \in GitStderrs :
       IF outcome = "ok"
       THEN /\ branch_name' = Str(Strip(stdout))
            /\ git_calls' = Append(git_calls, GitCall("rev-parse", "ok"))
            /\ pc' = "log"
            /\ UNCHANGED <<out, git_info, exit_code>>
       ELSE /\ GitFailure("rev-parse", outcome, stderr)
            /\ UNCHANGED branch_name
  /\ UNCHANGED <<base_branch, api_key_env, commit_logs, code_diff, prompt,
                 pr_message, requests, api_result>>

\* variant: a failing git log is swallowed and the diff is still taken
GitLogSwallow ==
  /\ pc = "log"
  /\ \E outcome \in GitOutcomes, stdout \in LogStdouts :
       /\ commit_logs' = Str(IF outcome = "ok" THEN Strip(stdout) ELSE <<>>)
       /\ git_calls' = Append(git_calls, GitCall("log", outcome))
       /\ pc' = "diff"
       /\ UNCHANGED <<out, git_info, exit_code>>
  /\ UNCHANGED <<base_branch, api_key_env, branch_name, code_diff, prompt,
                 pr_message, requests, api_result>>

\* git log base..HEAD --oneline --pretty=format:%s
GitLog ==
  /\ pc = "log"
  /\ \E outcome \in GitOutcomes, stdout \in LogStdouts, stderr \in GitStderrs :
       IF outcome = "ok"
       THEN /\ commit_logs' = Str(Strip(stdout))
            /\ git_calls' = Append(git_calls, GitCall("log", "ok"))
            /\ pc' = "diff"
            /\ UNCHANGED <<out, git_info, exit_code>>
       ELSE /\ GitFailure("log", outcome, stderr)
            /\ UNCHANGED commit_logs
  /\ UNCHANGED <<base_branch, api_key_env, branch_name, code_diff, prompt,
                 pr_message, requests, api_result>>

\* git diff base...HEAD, then the returned dict
GitDiff ==
  /\ pc = "diff"
  /\ \E outcome \in GitOutcomes, stdout \in DiffStdouts, stderr \in GitStderrs :
       IF outcome = "ok"
       THEN /\ code_diff' = Str(stdout)
            /\ git_calls' = Append(git_calls, GitCall("diff", "ok"))
            /\ git_info' = Dict(branch_name.val, commit_logs.val, stdout)
            /\ pc' = "if_git_info"
            /\ UNCHANGED <<out, exit_code>>
       ELSE /\ GitFailure("diff", outcome, stderr)
            /\ UNCHANGED code_diff
  /\ UNCHANGED <<base_branch, api_key_env, branch_name, commit_logs, prompt,
                 pr_message, requests, api_result>>

\* variant: a failed inspection ends the process with exit status 1
IfGitInfoExits ==
  /\ pc = "if_git_info"
  /\ IF GitInfoPresent(git_info)
     THEN /\ out' = out \o <<Line("branch", git_info.val[1], 0),
                             Line("commit_count", <<>>, CommitCount(git_info)),
                             Line("generating", <<>>, 0)>>
          /\ pc' = "getenv"
          /\ exit_code' = exit_code
     ELSE /\ out' = out
          /\ pc' = "done"
          /\ exit_code' = 1
  /\ UNCHANGED <<base_branch, api_key_env, branch_name, commit_logs, code_diff,
                 git_info, prompt, pr_message, git_calls, requests, api_result>>

\* lines 115-119: if git_info: three lines, then generate_pr_message
IfGitInfo ==
  /\ pc = "if_git_info"
  /\ IF GitInfoPresent(git_info)
     THEN /\ out' = out \o <<Line("branch", git_info.val[1], 0),
                             Line("commit_count", <<>>, CommitCount(git_info)),
                             Line("generating", <<>>, 0)>>
          /\ pc' = "getenv"
     ELSE /\ out' = out
          /\ pc' = "done"
  /\ UNCHANGED <<base_branch, api_key_env, branch_name, commit_logs, code_diff,
                 git_info, prompt, pr_message, git_calls, requests, api_result, exit_code>>

\* lines 46-84: the credential check, then the prompt
GetEnv ==
  /\ pc = "getenv"
  /\ IF NotApiKey(api_key_env)
     THEN /\ pr_message' = Str(MissingCredentialMessage)
          /\ prompt' = prompt
          /\ pc' = "print_result"
     ELSE /\ prompt' = Str(ComposePrompt(git_info))
          /\ pr_message' = pr_message
          /\ pc' = "create"
  /\ UNCHANGED <<base_branch, api_key_env, branch_name, commit_logs, code_diff,
                 git_info, out, git_calls, requests, api_result, exit_code>>

\* what the try block of generate_pr_message does with the outcome of the
\* call: the content of the first choice, or the exception raised on the way
TryResult(res) ==
  IF res.kind = "raise" THEN res
  ELSE IF res.choices = <<>> THEN Raised("IndexError")
  ELSE Returned(res.choices[1])

\* variant: a call that raised is made once more
CreateWithRetry ==
  /\ pc = "create"
  /\ requests' = Append(requests, [model |-> MODEL_NAME, role |-> "user", content |-> prompt.val])
  /\ \E res \in ApiOutcomes :
       /\ api_result' = res
       /\ LET r == TryResult(res)
          IN  IF r.kind = "return"
              THEN /\ pr_message' = r.value
                   /\ pc' = "print_result"
              ELSE IF Len(requests) = 0
              THEN /\ pr_message' = pr_message
                   /\ pc' = "create"
              ELSE /\ pr_message' = Str(CallFailedPrefix \o ErrorText(r.cls))
                   /\ pc' = "print_result"
  /\ UNCHANGED <<base_branch, api_key_env, branch_name, commit_logs, code_diff,
                 git_info, prompt, out, git_calls, exit_code>>

\* lines 86-90: the call, response.choices[0].message.content, except Exception
Create ==
  /\ pc = "create"
  /\ requests' = Append(requests, [model |-> MODEL_NAME, role |-> "user", content |-> prompt.val])
  /\ \E res \in ApiOutcomes :
       /\ api_result' = res
       /\ LET r == TryResult(res)
          IN  IF r.kind = "return"
              THEN /\ pr_message' = r.value
                   /\ pc' = "print_result"
                   /\ exit_code' = exit_code
              ELSE IF Caught(r.cls)
              THEN /\ pr_message' = Str(CallFailedPrefix \o ErrorText(r.cls))
                   /\ pc' = "print_result"
                   /\ exit_code' = exit_code
              ELSE /\ pr_message' = pr_message
                   /\ pc' = "crashed"
                   /\ exit_code' = 1
  /\ UNCHANGED <<base_branch, api_key_env, branch_name, commit_logs, code_diff,
                 git_info, prompt, out, git_calls>>

\* lines 123-127: the banner and the message
PrintResult ==
  /\ pc = "print_result"
  /\ out' = out \o <<Line("rule", <<>>, 0), Line("banner", <<>>, 0), Line("rule", <<>>, 0),
                     Line("message", Format(pr_message), 0), Line("rule", <<>>, 0)>>
  /\ pc' = "done"
  /\ UNCHANGED <<base_branch, api_key_env, branch_name, commit_logs, code_diff,
                 git_info, prompt, pr_message, git_calls, requests, api_result, exit_code>>

Next ==
  \/ MainStart
  \/ RevParse
  \/ GitLog
  \/ GitDiff
  \/ IfGitInfo
  \/ GetEnv
  \/ Create
  \/ PrintResult

Spec == Init /\ [][Next]_vars

TypeOK ==
  /\ pc \in {"main", "rev_parse", "log", "diff", "if_git_info", "getenv", "create",
             "print_result", "done", "crashed"}
  /\ exit_code \in {0, 1}
  /\ Len(git_calls) <= 3

(* ------------------------------ claims -------------------------------- *)
\* a git command that ended in one of the two failures get_git_info handles
HandledGitFailure(i) == git_calls[i].result \in {"CalledProcessError", "FileNotFoundError"}

AllGitOk == Len(git_calls) = 3 /\ \A i \in 1..3 : git_calls[i].result = "ok"

\* the five lines the driver prints around a message
ResultBanner(text) ==
  <<Line("rule", <<>>, 0), Line("banner", <<>>, 0), Line("rule", <<>>, 0),
    Line("message", text, 0), Line("rule", <<>>, 0)>>

LastLines(n) == IF Len(out) >= n THEN SubSeq(out, Len(out) - n + 1, Len(out)) ELSE <<>>

\* number of entries of a text separated by "\n"; the empty text has none
NewlineEntries(s) ==
  IF s = <<>> THEN 0 ELSE 1 + Cardinality({i \in 1..Len(s) : s[i] = LF})

\* position of a step in the order main, rev-parse, log, diff, result check,
\* credential check, remote call, print result, end
StepRank(p) ==
  CASE p = "main" -> 0
    [] p = "rev_parse" -> 1
    [] p = "log" -> 2
    [] p = "diff" -> 3
    [] p = "if_git_info" -> 4
    [] p = "getenv" -> 5
    [] p = "create" -> 6
    [] p = "print_result" -> 7
    [] OTHER -> 8

GitOrder == <<"rev-parse", "log", "diff">>

\* C1: if git is not installed or one of the three git commands exits
\* non-zero, get_git_info returns None and no chat-completion request is
\* ever made in that run.
C1_GitFailureNoRemoteCall ==
  (\E i \in 1..Len(git_calls) : HandledGitFailure(i))
    => /\ git_info = None
       /\ requests = <<>>
       /\ pc \in {"if_git_info", "done"}

C1_Witness ==
  /\ pc = "done"
  /\ Len(git_calls) = 2
  /\ git_calls[2] = GitCall("log", "CalledProcessError")
  /\ git_info = None
  /\ requests = <<>>

\* C2: with the API key unset or empty, generate_pr_message returns the
\* missing-credential message without a request, the process is not
\* aborted, and the driver prints the result banner with that message.
C2_MissingKeySoftFailure ==
  (/\ git_info.type = "dict"
   /\ pc \in {"create", "print_result", "done", "crashed"}
   /\ api_key_env \in {None, Str(<<>>)})
    => /\ pc \in {"print_result", "done"}
       /\ pr_message = Str(MissingCredentialMessage)
       /\ requests = <<>>
       /\ exit_code = 0
       /\ pc = "done" => LastLines(5) = ResultBanner(MissingCredentialMessage)

C2_Witness ==
  /\ pc = "done"
  /\ git_info.type = "dict"
  /\ api_key_env = Str(<<>>)
  /\ LastLines(5) = ResultBanner(MissingCredentialMessage)

\* C3: if the chat-completion call raises, generate_pr_message returns a
\* text starting with the call-failed marker, the driver prints it in the
\* result banner and the process ends normally.
C3_RemoteErrorBecomesText ==
  api_result.kind = "raise"
    => /\ pc \in {"print_result", "done"}
       /\ pr_message.type = "str"
       /\ Len(pr_message.val) >= Len(CallFailedPrefix)
       /\ SubSeq(pr_message.val, 1, Len(CallFailedPrefix)) = CallFailedPrefix
       /\ exit_code = 0
       /\ pc = "done" => LastLines(5) = ResultBanner(pr_message.val)

C3_Witness ==
  /\ pc = "done"
  /\ api_result = Raised("AuthenticationError")
  /\ LastLines(5) = ResultBanner(CallFailedPrefix \o <<"AuthenticationError">>)

\* C4: whatever the outcome of the chat-completion call, empty choices and
\* absent message content included, generate_pr_message returns a text and
\* never raises.
C4_AlwaysReturnsText ==
  api_result.kind # "none"
    => /\ pc \in {"print_result", "done"}
       /\ pr_message.type = "str"

\* C5: after a failed get_git_info the driver prints nothing beyond the
\* error message of get_git_info and the process ends with exit status 0.
C5_NothingAfterGitError ==
  git_info.type = "NoneType"
    => /\ Len(out) = 3
       /\ out[1].kind = "base_branch"
       /\ out[2].kind = "collecting"
       /\ out[3].kind \in {"git_error", "git_not_installed"}
       /\ pc \in {"if_git_info", "done"}
       /\ exit_code = 0

C5_Witness ==
  /\ pc = "done"
  /\ git_info.type = "NoneType"
  /\ out[Len(out)].kind = "git_not_installed"
  /\ exit_code = 0

\* C6: the commit count the driver prints equals the number of
\* newline-separated entries of commit_logs, 0 for the empty commit_logs.
C6_CountIsNewlineEntries ==
  \A i \in 1..Len(out) :
    out[i].kind = "commit_count" => out[i].num = NewlineEntries(git_info.val[2])

\* C7: the prompt sent contains branch_name, commit_logs and code_diff
\* verbatim and whole, and the three section headers; besides the fixed
\* template it holds nothing but the three fields.
C7_PromptEmbedsGitInfo ==
  \A i \in 1..Len(requests) :
    LET p == requests[i].content
    IN  /\ Contains(p, git_info.val[1])
        /\ Contains(p, git_info.val[2])
        /\ Contains(p, git_info.val[3])
        /\ Contains(p, <<HDR_TITLE>>)
        /\ Contains(p, <<HDR_DESCRIPTION>>)
        /\ Contains(p, <<HDR_KEY_CHANGES>>)
        /\ Len(p) = 17 + Len(git_info.val[1]) + Len(git_info.val[2]) + Len(git_info.val[3])

C7_Witness ==
  /\ Len(requests) = 1
  /\ git_info = Dict(<<"x", "x">>, <<"a", LF, "a">>, <<"+", LF>>)
  /\ Contains(requests[1].content, <<"a", LF, "a">>)

\* C8: a run is a linear sequence: every step moves to a later position in
\* the order rev-parse, log, diff, credential check, remote call, print
\* result; the git commands are run in that order, each at most once, and
\* the remote call is made at most once.
C8_LinearNoRetry ==
  [][/\ StepRank(pc') > StepRank(pc)
     /\ Len(git_calls') <= 3
     /\ \A i \in 1..Len(git_calls') : git_calls'[i].cmd = GitOrder[i]
     /\ Len(requests') <= 1]_vars

C8_Witness ==
  /\ pc = "done"
  /\ Len(git_calls) = 3
  /\ Len(requests) = 1
  /\ api_result.kind = "raise"

\* C9: get_git_info stops at the first git command that fails and then has
\* no GitInfo; a GitInfo exists only after rev-parse, log and diff all
\* succeeded, and then holds the three values read.
C9_AllOrNothing ==
  /\ \A i \in 1..Len(git_calls) : git_calls[i].result # "ok" => Len(git_calls) = i
  /\ (\E i \in 1..Len(git_calls) : HandledGitFailure(i)) => git_info = None
  /\ git_info.type = "dict"
       => /\ AllGitOk
          /\ branch_name.type = "str" /\ commit_logs.type = "str" /\ code_diff.type = "str"
          /\ git_info.val = <<branch_name.val, commit_logs.val, code_diff.val>>
  /\ git_info.type \in {"unbound", "NoneType", "dict"}

C9_Witness ==
  /\ Len(git_calls) = 1
  /\ git_calls[1] = GitCall("rev-parse", "FileNotFoundError")
  /\ git_info = None
  /\ pc = "done"

\* C10: the chat-completion request is made exactly once when all three
\* git commands succeeded and the API key is set and non-empty, an empty
\* commit log and an empty diff included, and never otherwise.
C10_RemoteCallIff ==
  /\ Len(requests) <= 1
  /\ Len(requests) = 1 => AllGitOk /\ api_key_env.type = "str" /\ api_key_env.val # <<>>
  /\ (pc \in {"done", "crashed"} /\ AllGitOk /\ api_key_env.type = "str" /\ api_key_env.val # <<>>)
       => Len(requests) = 1

C10_Witness ==
  /\ pc = "done"
  /\ git_info.type = "dict"
  /\ git_info.val[2] = <<>>
  /\ git_info.val[3] = <<>>
  /\ Len(requests) = 1

====
